---------------------------- MODULE Spec2Model ----------------------------
(***************************************************************************)
(* European option pricing engines (package pricing):                      *)
(*   BlackScholesPricer  src/src/pricing/black_scholes.py                  *)
(*   MonteCarloPricer    src/src/pricing/monte_carlo.py                    *)
(*   GreeksCalculator    src/src/pricing/greeks.py                         *)
(*                                                                         *)
(* Real numbers are fixed-point integers in units of 1/SCALE: the float    *)
(* 0.25 is 250, the spot 10.0 is 10000.  Every product and quotient is     *)
(* rounded to the nearest unit, as a float operation rounds to the nearest *)
(* representable value.  A float that is NaN is carried in the "kind" of a *)
(* result, never as a number.                                              *)
(***************************************************************************)
EXTENDS Integers, Sequences, FiniteSets, TLC

VARIABLES rng, pricers, params, ret

vars == <<rng, pricers, params, ret>>

---------------------------------------------------------------------------
(* Fixed-point arithmetic                                                  *)

SCALE == 10^3

Abs(x) == IF x < 0 THEN -x ELSE x

Sign(x) == IF x < 0 THEN -1 ELSE 1

\* a / b rounded to the nearest integer (b # 0)
RDiv(a, b) == Sign(a) * Sign(b) * ((2 * Abs(a) + Abs(b)) \div (2 * Abs(b)))

\* float product x * y
Mul(x, y) == RDiv(x * y, SCALE)

\* float quotient x / y
Div(x, y) == RDiv(x * SCALE, y)

Half == SCALE \div 2

\* Python's max(a, b) on two finite numbers: a unless b > a
PyMax(a, b) == IF b > a THEN b ELSE a

RECURSIVE SqrtIter(_, _)
SqrtIter(n, g) ==
    LET h == (g + n \div g) \div 2
    IN  IF h >= g THEN g ELSE SqrtIter(n, h)

\* np.sqrt(x) for x >= 0: the nearest fixed-point value to the root
Sqrt(x) ==
    IF x <= 0 THEN 0
    ELSE LET n == x * SCALE
             f == SqrtIter(n, n)
         IN  IF n - f * f > f THEN f + 1 ELSE f

\* Taylor polynomial of exp on |x| <= 1/2
ExpSeries(x) ==
    LET x2 == Mul(x, x)
        x3 == Mul(x2, x)
        x4 == Mul(x3, x)
        x5 == Mul(x4, x)
    IN  SCALE + x + RDiv(x2, 2) + RDiv(x3, 6) + RDiv(x4, 24) + RDiv(x5, 120)

\* ln 2
Ln2 == 693

RECURSIVE Exp(_)
\* np.exp(x): the argument is reduced by multiples of ln 2, then the series
Exp(x) ==
    IF x > Half THEN 2 * Exp(x - Ln2)
    ELSE IF x < -Half THEN RDiv(Exp(x + Ln2), 2)
    ELSE ExpSeries(x)

\* 2 * atanh((y - 1) / (y + 1)) on 1/2 <= y <= 2
LnSeries(y) ==
    LET z  == Div(y - SCALE, y + SCALE)
        z2 == Mul(z, z)
        z3 == Mul(z2, z)
        z5 == Mul(z3, z2)
        z7 == Mul(z5, z2)
    IN  2 * (z + RDiv(z3, 3) + RDiv(z5, 5) + RDiv(z7, 7))

RECURSIVE Ln(_)
\* np.log(y) for y > 0
Ln(y) ==
    IF y < Half THEN Ln(2 * y) - Ln2
    ELSE IF y > 2 * SCALE THEN Ln(RDiv(y, 2)) + Ln2
    ELSE LnSeries(y)

\* Phi at 0, 0.25, 0.5, ..., 4.0
CdfTable ==
    <<500, 599, 691, 773, 841, 894, 933, 960, 977,
      988, 994, 997, 999, 999, 1000, 1000, 1000>>

\* norm.cdf(x) for x >= 0, interpolated in the table
CdfPos(x) ==
    LET step == SCALE \div 4
        i    == x \div step
    IN  IF i + 2 > Len(CdfTable) THEN SCALE
        ELSE CdfTable[i + 1]
             + RDiv((CdfTable[i + 2] - CdfTable[i + 1]) * (x - i * step), step)

\* norm.cdf(x)
Cdf(x) == IF x < 0 THEN SCALE - CdfPos(-x) ELSE CdfPos(x)

---------------------------------------------------------------------------
(* BlackScholesPricer                                                      *)

\* a call's outcome: a finite float, a NaN float, or a raised exception
Value(branch, v) == [kind |-> "value", branch |-> branch, val |-> v]

NaN(branch) == [kind |-> "nan", branch |-> branch, val |-> 0]

Raise(branch, e) == [kind |-> e, branch |-> branch, val |-> 0]

\* K * np.exp(-r * T)
DiscountedStrike(K, r, T) == Mul(K, Exp(Mul(-r, T)))

\* sigma * np.sqrt(T)
VolSqrtT(sigma, T) == Mul(sigma, Sqrt(T))

\* (np.log(S / K) + (r + 0.5 * sigma**2) * T) / (sigma * np.sqrt(T)), S / K > 0
D1(S, K, T, r, sigma) ==
    Div(Ln(Div(S, K)) + Mul(r + Mul(Half, Mul(sigma, sigma)), T),
        VolSqrtT(sigma, T))

\* S * norm.cdf(d1) - K * np.exp(-r * T) * norm.cdf(d2)
CallFormula(S, K, T, r, d1, d2) ==
    Mul(S, Cdf(d1)) - Mul(DiscountedStrike(K, r, T), Cdf(d2))

\* PutFormula with the sign of d2 lost
PutFormula_d2_sign(S, K, T, r, d1, d2) ==
    Mul(DiscountedStrike(K, r, T), Cdf(d2)) - Mul(S, Cdf(-d1))

\* K * np.exp(-r * T) * norm.cdf(-d2) - S * norm.cdf(-d1)
PutFormula(S, K, T, r, d1, d2) ==
    Mul(DiscountedStrike(K, r, T), Cdf(-d2)) - Mul(S, Cdf(-d1))

\* price_expired without the max(., 0)
price_expired_unclamped(S, K, option_type) ==
    IF option_type = "call" THEN S - K ELSE K - S

\* the T <= 0 branch of price
price_expired(S, K, option_type) ==
    IF option_type = "call" THEN PyMax(S - K, 0) ELSE PyMax(K - S, 0)

\* the sigma <= 0 branch of price
price_no_vol(S, K, T, r, option_type) ==
    IF option_type = "call"
    THEN PyMax(S - DiscountedStrike(K, r, T), 0)
    ELSE PyMax(DiscountedStrike(K, r, T) - S, 0)

\* the d1/d2 branch of price.  S / K raises on K = 0; np.log gives NaN on a
\* negative ratio and -inf on a zero one, which norm.cdf maps to 0 and 1.
price_normal(S, K, T, r, sigma, option_type) ==
    IF K = 0 THEN Raise("normal", "ZeroDivisionError")
    ELSE IF (S < 0) # (K < 0) /\ S # 0 THEN NaN("normal")
    ELSE IF S = 0
    THEN Value("normal",
               IF option_type = "call" THEN 0
               ELSE PyMax(DiscountedStrike(K, r, T), 0))
    ELSE LET d1 == D1(S, K, T, r, sigma)
             d2 == d1 - VolSqrtT(sigma, T)
             price == IF option_type = "call"
                      THEN CallFormula(S, K, T, r, d1, d2)
                      ELSE PutFormula(S, K, T, r, d1, d2)
         IN  Value("normal", PyMax(price, 0))

\* price with the sigma <= 0 test ahead of the T <= 0 test
price_sigma_first(S, K, T, r, sigma, option_type) ==
    IF sigma <= 0
    THEN Value("zero_vol", price_no_vol(S, K, T, r, option_type))
    ELSE IF T <= 0 THEN Value("expired", price_expired(S, K, option_type))
    ELSE price_normal(S, K, T, r, sigma, option_type)

\* BlackScholesPricer.price
price(S, K, T, r, sigma, option_type) ==
    IF T <= 0 THEN Value("expired", price_expired(S, K, option_type))
    ELSE IF sigma <= 0
    THEN Value("zero_vol", price_no_vol(S, K, T, r, option_type))
    ELSE price_normal(S, K, T, r, sigma, option_type)

---------------------------------------------------------------------------
(* GreeksCalculator                                                        *)

\* 1 / sqrt(2 pi)
InvSqrt2Pi == 399

\* norm.pdf(x); beyond |x| = 4 the density is below half a unit
Pdf(x) ==
    IF Abs(x) > 4 * SCALE THEN 0
    ELSE Mul(InvSqrt2Pi, Exp(-Mul(Half, Mul(x, x))))

\* a Greek's outcome: a finite float, a NaN float, or a raised exception;
\* calls is the number of times the method called _d1_d2
GreekValue(v, calls) == [kind |-> "value", val |-> v, calls |-> calls]

GreekNaN(calls) == [kind |-> "nan", val |-> 0, calls |-> calls]

GreekRaise(e, calls) == [kind |-> e, val |-> 0, calls |-> calls]

\* GreeksCalculator._d1_d2.  S / K raises on K = 0; np.log gives -inf on a
\* zero ratio and NaN on a negative one.
greeks_d1_d2(S, K, T, r, sigma) ==
    IF T <= 0 \/ sigma <= 0 THEN [kind |-> "value", d1 |-> 0, d2 |-> 0]
    ELSE IF K = 0 THEN [kind |-> "ZeroDivisionError", d1 |-> 0, d2 |-> 0]
    ELSE IF S = 0 THEN [kind |-> "neg_inf", d1 |-> 0, d2 |-> 0]
    ELSE IF (S < 0) # (K < 0) THEN [kind |-> "nan", d1 |-> 0, d2 |-> 0]
    ELSE LET d1 == D1(S, K, T, r, sigma)
         IN  [kind |-> "value", d1 |-> d1, d2 |-> d1 - VolSqrtT(sigma, T)]

\* a Greek in the normal case: one call of _d1_d2, then the formula that
\* fits what it returned (finite d1 and d2, both -inf, or both NaN)
greek_normal(d, finite, at_neg_inf) ==
    IF d.kind = "value" THEN GreekValue(finite, 1)
    ELSE IF d.kind = "neg_inf"
    THEN (IF at_neg_inf.nan THEN GreekNaN(1)
          ELSE GreekValue(at_neg_inf.val, 1))
    ELSE IF d.kind = "nan" THEN GreekNaN(1)
    ELSE GreekRaise(d.kind, 1)

\* delta with the expired call in the money from S = K on
delta_at_the_money(S, K, T, r, sigma, option_type) ==
    IF T <= 0
    THEN GreekValue(IF option_type = "call"
                    THEN (IF S >= K THEN SCALE ELSE 0)
                    ELSE (IF S <= K THEN -SCALE ELSE 0), 0)
    ELSE IF sigma <= 0 THEN GreekValue(0, 0)
    ELSE LET d == greeks_d1_d2(S, K, T, r, sigma)
         IN  greek_normal(d,
                 IF option_type = "call" THEN Cdf(d.d1) ELSE -Cdf(-d.d1),
                 [nan |-> FALSE,
                  val |-> IF option_type = "call" THEN 0 ELSE -SCALE])

\* GreeksCalculator.delta
delta(S, K, T, r, sigma, option_type) ==
    IF T <= 0
    THEN GreekValue(IF option_type = "call"
                    THEN (IF S > K THEN SCALE ELSE 0)
                    ELSE (IF S < K THEN -SCALE ELSE 0), 0)
    ELSE IF sigma <= 0 THEN GreekValue(0, 0)
    ELSE LET d == greeks_d1_d2(S, K, T, r, sigma)
         IN  greek_normal(d,
                 IF option_type = "call" THEN Cdf(d.d1) ELSE -Cdf(-d.d1),
                 [nan |-> FALSE,
                  val |-> IF option_type = "call" THEN 0 ELSE -SCALE])

\* GreeksCalculator.gamma: norm.pdf(d1) / (S * sigma * np.sqrt(T)); with
\* S = 0 the quotient is 0 / 0
gamma(S, K, T, r, sigma) ==
    IF T <= 0 \/ sigma <= 0 THEN GreekValue(0, 0)
    ELSE LET d == greeks_d1_d2(S, K, T, r, sigma)
         IN  greek_normal(d,
                 IF d.kind = "value"
                 THEN Div(Pdf(d.d1), Mul(Mul(S, sigma), Sqrt(T))) ELSE 0,
                 [nan |-> TRUE, val |-> 0])

\* GreeksCalculator.vega: S * norm.pdf(d1) * np.sqrt(T)
vega(S, K, T, r, sigma) ==
    IF T <= 0 \/ sigma <= 0 THEN GreekValue(0, 0)
    ELSE LET d == greeks_d1_d2(S, K, T, r, sigma)
         IN  greek_normal(d, Mul(Mul(S, Pdf(d.d1)), Sqrt(T)),
                          [nan |-> FALSE, val |-> 0])

\* GreeksCalculator.theta: (term1 + term2) / 365.0
theta(S, K, T, r, sigma, option_type) ==
    IF T <= 0 \/ sigma <= 0 THEN GreekValue(0, 0)
    ELSE LET d == greeks_d1_d2(S, K, T, r, sigma)
             term1 == Div(-Mul(Mul(S, Pdf(d.d1)), sigma), 2 * Sqrt(T))
             carry == Mul(Mul(r, K), Exp(Mul(-r, T)))
             term2 == IF option_type = "call"
                      THEN Mul(-carry, Cdf(d.d2))
                      ELSE Mul(carry, Cdf(-d.d2))
         IN  greek_normal(d, RDiv(term1 + term2, 365),
                 [nan |-> FALSE,
                  val |-> IF option_type = "call" THEN 0
                          ELSE RDiv(carry, 365)])

\* GreeksCalculator.rho: K * T * np.exp(-r * T) * norm.cdf(d2), negated
\* with -d2 for a put
rho(S, K, T, r, sigma, option_type) ==
    IF T <= 0 \/ sigma <= 0 THEN GreekValue(0, 0)
    ELSE LET d == greeks_d1_d2(S, K, T, r, sigma)
             KT == Mul(Mul(K, T), Exp(Mul(-r, T)))
         IN  greek_normal(d,
                 IF option_type = "call" THEN Mul(KT, Cdf(d.d2))
                 ELSE Mul(-KT, Cdf(-d.d2)),
                 [nan |-> FALSE,
                  val |-> IF option_type = "call" THEN 0 ELSE -KT])

\* GreeksCalculator.all_greeks: the dict of the five method calls, made in
\* the order delta, gamma, vega, theta, rho; the first one that raises ends
\* the call.  d1_d2_calls counts the calls of _d1_d2 made on the way.
all_greeks(S, K, T, r, sigma, option_type) ==
    LET first == delta(S, K, T, r, sigma, option_type)
        greeks == [delta |-> first,
                   gamma |-> gamma(S, K, T, r, sigma),
                   vega |-> vega(S, K, T, r, sigma),
                   theta |-> theta(S, K, T, r, sigma, option_type),
                   rho |-> rho(S, K, T, r, sigma, option_type)]
    IN  IF first.kind \notin {"value", "nan"}
        THEN [kind |-> first.kind, greeks |-> <<>>,
              d1_d2_calls |-> first.calls]
        ELSE [kind |-> "value", greeks |-> greeks,
              d1_d2_calls |-> greeks.delta.calls + greeks.gamma.calls
                              + greeks.vega.calls + greeks.theta.calls
                              + greeks.rho.calls]

---------------------------------------------------------------------------
(* BlackScholesPricer.price_vectorized                                     *)

\* two array lengths numpy can broadcast together, and the resulting length
Broadcastable(n, m) == n = m \/ n = 1 \/ m = 1

BroadcastLen(n, m) == IF n = 1 THEN m ELSE n

\* element i of an array broadcast from length Len(a)
At(a, i) == IF Len(a) = 1 THEN a[1] ELSE a[i]

\* storing a float into an array of the given dtype: an integer array
\* truncates toward zero
Store(dtype, v) ==
    IF dtype = "int64" THEN Sign(v) * (Abs(v) \div SCALE) * SCALE ELSE v

\* expired_mask, no_vol_mask, normal_mask at index i
expired_mask(T, i) == T[i] <= 0

no_vol_mask(T, sigma, i) == At(T, i) > 0 /\ At(sigma, i) <= 0

normal_mask(T, sigma, i) == At(T, i) > 0 /\ At(sigma, i) > 0

\* the value assigned under expired_mask
vec_expired(S, K, option_type) ==
    IF option_type = "call" THEN PyMax(S - K, 0) ELSE PyMax(K - S, 0)

\* the value assigned under no_vol_mask
vec_no_vol(S, K, T, r, option_type) ==
    IF option_type = "call"
    THEN PyMax(S - Mul(K, Exp(Mul(-r, T))), 0)
    ELSE PyMax(Mul(K, Exp(Mul(-r, T))) - S, 0)

\* the value assigned under normal_mask (S > 0, K > 0)
vec_normal(S, K, T, r, sigma, option_type) ==
    LET d1 == Div(Ln(Div(S, K)) + Mul(r + Mul(Half, Mul(sigma, sigma)), T),
                  Mul(sigma, Sqrt(T)))
        d2 == d1 - Mul(sigma, Sqrt(T))
    IN  IF option_type = "call"
        THEN Mul(S, Cdf(d1)) - Mul(Mul(K, Exp(Mul(-r, T))), Cdf(d2))
        ELSE Mul(Mul(K, Exp(Mul(-r, T))), Cdf(-d2)) - Mul(S, Cdf(-d1))

\* prices[i] after the three masked assignments, each into zeros_like(S)
vec_assigned(S, K, T, r, sigma, option_type, dtype, i) ==
    IF normal_mask(T, sigma, i)
    THEN Store(dtype, vec_normal(S[i], K[i], T[i], r, sigma[i], option_type))
    ELSE IF no_vol_mask(T, sigma, i)
    THEN Store(dtype, vec_no_vol(S[i], K[i], T[i], r, option_type))
    ELSE IF expired_mask(T, i)
    THEN Store(dtype, vec_expired(S[i], K[i], option_type))
    ELSE 0

\* the outcome of an array call
Values(vals) == [kind |-> "value", vals |-> vals]

RaiseVec(e) == [kind |-> e, vals |-> <<>>]

\* BlackScholesPricer.price_vectorized; dtype is S.dtype
price_vectorized(S, K, T, r, sigma, option_type, dtype) ==
    LET n == BroadcastLen(Len(T), Len(sigma))
    IN  IF ~Broadcastable(Len(T), Len(sigma)) THEN RaiseVec("ValueError")
        ELSE IF Len(S) # Len(T) \/ Len(K) # Len(T) THEN RaiseVec("IndexError")
        ELSE IF n # Len(S) THEN RaiseVec("IndexError")
        ELSE IF /\ \E i \in 1..n : normal_mask(T, sigma, i)
                /\ Len(sigma) # n
        THEN RaiseVec("IndexError")
        ELSE Values([i \in 1..n |->
                 PyMax(vec_assigned(S, K, T, r, sigma, option_type, dtype, i),
                       0)])

---------------------------------------------------------------------------
(* numpy's process-wide random source                                      *)

\* The generator's state is the stream it was last seeded to and how many
\* variates it has produced since.  No pricer holds a generator of its own.
\* random_seed = None
NoSeed == -1

\* the stream of a process that never called np.random.seed
EntropyStream == 0

\* the standard normal variates a stream yields, by position
ZTable == <<-1500, 500, -500, 1500, 0, 1000, -1000>>

\* the k-th variate (k >= 1) of a stream
Variate(stream, k) == ZTable[((3 * k + 2 * stream) % Len(ZTable)) + 1]

\* np.random.seed(seed)
Seeded(seed) == [stream |-> seed, pos |-> 0]

\* the generator after producing n variates
Advance(g, n) == [stream |-> g.stream, pos |-> g.pos + n]

---------------------------------------------------------------------------
(* MonteCarloPricer                                                        *)

RECURSIVE SeqSum(_)
SeqSum(s) == IF s = <<>> THEN 0 ELSE Head(s) + SeqSum(Tail(s))

\* np.mean of a non-empty array
Mean(s) == RDiv(SeqSum(s), Len(s))

\* np.std of a non-empty array: the population standard deviation (ddof = 0)
Std(s) ==
    LET m == Mean(s)
    IN  Sqrt(RDiv(SeqSum([i \in 1..Len(s) |-> Mul(s[i] - m, s[i] - m)]),
                  Len(s)))

\* a simulation's outcome: (price, std_error), NaNs, or a raised exception;
\* draws is the number of variates it took from the generator
McValue(branch, p, e, draws) ==
    [kind |-> "value", branch |-> branch, price |-> p, std_error |-> e,
     draws |-> draws]

McNaN(branch, draws) ==
    [kind |-> "nan", branch |-> branch, price |-> 0, std_error |-> 0,
     draws |-> draws]

McRaise(branch, e) ==
    [kind |-> e, branch |-> branch, price |-> 0, std_error |-> 0, draws |-> 0]

\* Z[i, j] of Z = np.random.normal(0, 1, (n_simulations, n_steps))
ZAt(g, n_steps, i, j) == Variate(g.stream, g.pos + (i - 1) * n_steps + j)

\* S * np.exp((r - 0.5 * sigma**2) * T + sigma * np.sqrt(T) * Z[:, 0])
terminal_single(S, T, r, sigma, z) ==
    Mul(S, Exp(Mul(r - Mul(Half, Mul(sigma, sigma)), T)
               + Mul(Mul(sigma, Sqrt(T)), z)))

\* log_ST after the loop over the steps (S > 0); zs is one row of Z
log_terminal_multi(S, r, sigma, dt, zs) ==
    Ln(S) + Mul(r - Mul(Half, Mul(sigma, sigma)), dt)
    + SeqSum([j \in 1..Len(zs) |-> Mul(Mul(sigma, Sqrt(dt)), zs[j])])

\* log_ST of every path after the loop; row i of Z drives path i
mc_log_paths(g, S, T, r, sigma, n_simulations, n_steps) ==
    [i \in 1..n_simulations |->
         log_terminal_multi(S, r, sigma, RDiv(T, n_steps),
                            [j \in 1..n_steps |-> ZAt(g, n_steps, i, j)])]

\* the discounted payoff of one terminal price
discounted_payoff(ST, K, T, r, option_type) ==
    Mul(Exp(Mul(-r, T)),
        IF option_type = "call" THEN PyMax(ST - K, 0) ELSE PyMax(K - ST, 0))

\* ST of every path
mc_terminal(g, S, T, r, sigma, n_simulations, n_steps) ==
    [i \in 1..n_simulations |->
         IF n_steps = 1
         THEN terminal_single(S, T, r, sigma, ZAt(g, n_steps, i, 1))
         ELSE IF S = 0 THEN 0
         ELSE Exp(mc_log_paths(g, S, T, r, sigma, n_simulations,
                               n_steps)[i])]

\* discounted_payoffs of every path
mc_discounted_payoffs(g, S, K, T, r, sigma, option_type, n_simulations, n_steps) ==
    LET ST == mc_terminal(g, S, T, r, sigma, n_simulations, n_steps)
    IN  [i \in 1..n_simulations |->
             discounted_payoff(ST[i], K, T, r, option_type)]

\* lines 84-114 of price: the simulation itself
mc_simulate(g, S, K, T, r, sigma, option_type, n_simulations, n_steps) ==
    IF n_steps = 0 THEN McRaise("normal", "ZeroDivisionError")
    ELSE IF n_simulations < 0 \/ n_steps < 0
    THEN McRaise("normal", "ValueError")
    ELSE
    LET draws == n_simulations * n_steps
        discounted_payoffs ==
            mc_discounted_payoffs(g, S, K, T, r, sigma, option_type,
                                  n_simulations, n_steps)
    IN  IF n_simulations = 0 THEN McNaN("normal", draws)
        ELSE IF n_steps # 1 /\ S < 0 THEN McNaN("normal", draws)
        ELSE McValue("normal", Mean(discounted_payoffs),
                     Div(Std(discounted_payoffs),
                         Sqrt(n_simulations * SCALE)),
                     draws)

\* price drawing Z before it looks at T and sigma
mc_price_draw_first(g, S, K, T, r, sigma, option_type, n_simulations, n_steps) ==
    LET drawn == IF n_simulations > 0 /\ n_steps > 0
                 THEN n_simulations * n_steps ELSE 0
    IN  IF T <= 0
        THEN McValue("expired",
                     IF option_type = "call" THEN PyMax(S - K, 0)
                     ELSE PyMax(K - S, 0),
                     0, drawn)
        ELSE IF sigma <= 0
        THEN McValue("zero_vol",
                     IF option_type = "call"
                     THEN PyMax(S - Mul(K, Exp(Mul(-r, T))), 0)
                     ELSE PyMax(Mul(K, Exp(Mul(-r, T))) - S, 0),
                     0, drawn)
        ELSE mc_simulate(g, S, K, T, r, sigma, option_type,
                         n_simulations, n_steps)

\* MonteCarloPricer.price, run with the generator in state g
mc_price(g, S, K, T, r, sigma, option_type, n_simulations, n_steps) ==
    IF T <= 0
    THEN McValue("expired",
                 IF option_type = "call" THEN PyMax(S - K, 0)
                 ELSE PyMax(K - S, 0),
                 0, 0)
    ELSE IF sigma <= 0
    THEN McValue("zero_vol",
                 IF option_type = "call"
                 THEN PyMax(S - Mul(K, Exp(Mul(-r, T))), 0)
                 ELSE PyMax(Mul(K, Exp(Mul(-r, T))) - S, 0),
                 0, 0)
    ELSE mc_simulate(g, S, K, T, r, sigma, option_type,
                     n_simulations, n_steps)

\* the loop of price_vectorized with one set of draws handed to every option
RECURSIVE mc_vec_loop_shared(_, _, _, _, _, _, _, _, _, _, _)
mc_vec_loop_shared(g, S, K, T, r, sigma, option_type, n_simulations, n_steps, i, acc) ==
    IF i > Len(S) THEN [kind |-> "value", outs |-> acc, g |-> g]
    ELSE IF i > Len(K) \/ i > Len(T) \/ i > Len(sigma)
    THEN [kind |-> "IndexError", outs |-> <<>>, g |-> g]
    ELSE LET o == mc_price(g, S[i], K[i], T[i], r, sigma[i], option_type,
                           n_simulations, n_steps)
         IN  IF o.kind \notin {"value", "nan"}
             THEN [kind |-> o.kind, outs |-> <<>>, g |-> g]
             ELSE mc_vec_loop_shared(g, S, K, T, r, sigma, option_type,
                                     n_simulations, n_steps, i + 1,
                                     Append(acc, [entered |-> g, out |-> o]))

\* the loop of MonteCarloPricer.price_vectorized from index i on: the
\* generator state g is threaded through the calls; an index past the end
\* of K, T or sigma raises IndexError after the earlier calls have drawn.
\* Each entry of acc is (prices[i], std_errors[i]) with the generator state
\* the i-th call was entered in.
RECURSIVE mc_vec_loop(_, _, _, _, _, _, _, _, _, _, _)
mc_vec_loop(g, S, K, T, r, sigma, option_type, n_simulations, n_steps, i, acc) ==
    IF i > Len(S) THEN [kind |-> "value", outs |-> acc, g |-> g]
    ELSE IF i > Len(K) \/ i > Len(T) \/ i > Len(sigma)
    THEN [kind |-> "IndexError", outs |-> <<>>, g |-> g]
    ELSE LET o == mc_price(g, S[i], K[i], T[i], r, sigma[i], option_type,
                           n_simulations, n_steps)
         IN  IF o.kind \notin {"value", "nan"}
             THEN [kind |-> o.kind, outs |-> <<>>, g |-> g]
             ELSE mc_vec_loop(Advance(g, o.draws), S, K, T, r, sigma,
                              option_type, n_simulations, n_steps, i + 1,
                              Append(acc, [entered |-> g, out |-> o]))

\* MonteCarloPricer.price_vectorized, run with the generator in state g
mc_price_vectorized(g, S, K, T, r, sigma, option_type, n_simulations, n_steps) ==
    mc_vec_loop(g, S, K, T, r, sigma, option_type, n_simulations, n_steps,
                1, <<>>)

---------------------------------------------------------------------------
(* Inputs                                                                  *)

\* the most variates one run may take from a stream
MaxDraws == 4

\* the largest n_simulations and n_steps tried
MaxSims == 2

MaxSteps == 2

Seeds == {NoSeed, 1, 2}

OptionTypes == {"call", "put", "straddle"}

\* market parameters of the analytical engines; spot and strike include
\* non-positive values, T and sigma non-positive ones
AnalyticParams ==
    [S : {-1000, 0, 9000, 10000, 11000}, K : {-10000, 10000},
     T : {-250, 0, 250, 1000}, r : {-50, 50}, sigma : {-200, 0, 200, 400},
     option_type : OptionTypes, n_simulations : {1}, n_steps : {1}]

\* parameters of the simulation engine, n_simulations and n_steps from -1
SimulationParams ==
    [S : {9000, 11000}, K : {10000}, T : {-250, 0, 250}, r : {50},
     sigma : {0, 200}, option_type : OptionTypes,
     n_simulations : -1..MaxSims, n_steps : -1..MaxSteps]

\* the inputs the design calls valid: S > 0, K > 0, a recognized option
\* type, n_simulations >= 1, n_steps >= 1; any T, r and sigma
ValidParams ==
    [S : {9000, 11000}, K : {10000}, T : {-250, 250}, r : {-50, 50},
     sigma : {0, 200}, option_type : {"call", "put"},
     n_simulations : 1..MaxSims, n_steps : 1..MaxSteps]

\* the scalar arguments of the vectorized calls
VectorParams ==
    [S : {10000}, K : {10000}, T : {250}, r : {50}, sigma : {200},
     option_type : {"call", "put"},
     n_simulations : 1..MaxSims, n_steps : 1..MaxSteps]

\* the arguments of a client that holds two pricers
TwoPricerParams ==
    [S : {11000}, K : {10000}, T : {250}, r : {50}, sigma : {200},
     option_type : {"call", "put"}, n_simulations : {2}, n_steps : {1}]

\* array arguments of the vectorized calls (spots and strikes positive)
ArrayInputs ==
    { [S |-> <<9000, 11000>>, K |-> <<10000, 10000>>, T |-> <<0, 250>>,
       sigma |-> <<200, 200>>, dtype |-> "float64"],
      [S |-> <<11000, 9000>>, K |-> <<10000, 10000>>, T |-> <<250, 250>>,
       sigma |-> <<0, 200>>, dtype |-> "float64"],
      [S |-> <<11000, 9000>>, K |-> <<10000, 10000>>, T |-> <<250, 250>>,
       sigma |-> <<0, 200>>, dtype |-> "int64"],
      [S |-> <<11000>>, K |-> <<10000, 9000>>, T |-> <<250, 0>>,
       sigma |-> <<200, 200>>, dtype |-> "float64"],
      [S |-> <<9000, 11000>>, K |-> <<10000, 10000>>, T |-> <<250, 250>>,
       sigma |-> <<0>>, dtype |-> "float64"],
      [S |-> <<9000, 11000>>, K |-> <<10000>>, T |-> <<250, 250>>,
       sigma |-> <<200, 200>>, dtype |-> "float64"],
      [S |-> <<9000, 11000>>, K |-> <<10000, 10000>>, T |-> <<250, 250>>,
       sigma |-> <<200, 200>>, dtype |-> "float64"],
      [S |-> <<11000, 9000, 9000>>, K |-> <<10000, 10000, 10000>>,
       T |-> <<250, 0, 250>>, sigma |-> <<200, 200, 200>>,
       dtype |-> "float64"] }

---------------------------------------------------------------------------
(* The state machine: a client of the package                              *)
(*   rng      numpy's global generator                                     *)
(*   pricers  the client's MonteCarloPricer variables: constructed yet,    *)
(*            the instance's random_seed, and how many variates the        *)
(*            instance's own calls have drawn                              *)
(*   params   the scalar arguments this client passes                      *)
(*   ret      the last call and what it returned; for a simulation also    *)
(*            the generator's state when it was entered and when it left,  *)
(*            and the locals log_ST (of a multi-step simulation) and       *)
(*            discounted_payoffs                                           *)

NoCall == [op |-> "none"]

\* a client holding the pricer variables P, passing arguments from D
InitWith(P, D) ==
    /\ rng = [stream |-> EntropyStream, pos |-> 0]
    /\ pricers = [p \in P |->
                     [made |-> FALSE, random_seed |-> NoSeed, drawn |-> 0]]
    /\ params \in D
    /\ ret = NoCall

Init == InitWith({"A"}, AnalyticParams)

InitMC == InitWith({"A"}, SimulationParams)

InitAll == InitWith({"A"}, ValidParams)

InitVec == InitWith({"A"}, VectorParams)

InitTwo == InitWith({"A", "B"}, TwoPricerParams)

\* bs = BlackScholesPricer(); bs.price(S, K, T, r, sigma, option_type)
BSPrice ==
    /\ ret' = [op |-> "price",
               out |-> price(params.S, params.K, params.T, params.r,
                             params.sigma, params.option_type)]
    /\ UNCHANGED <<rng, pricers, params>>

\* bs.price_vectorized(S, K, T, r, sigma, option_type)
BSPriceVectorized ==
    \E a \in ArrayInputs :
        /\ ret' = [op |-> "price_vectorized", arrays |-> a,
                   out |-> price_vectorized(a.S, a.K, a.T, params.r,
                                            a.sigma, params.option_type,
                                            a.dtype)]
        /\ UNCHANGED <<rng, pricers, params>>

\* example_black_scholes: a call price, a put price, and their parity gap
\* call - put - S + K * np.exp(-r * T)
ExampleBlackScholes ==
    LET call_price == price(params.S, params.K, params.T, params.r,
                            params.sigma, "call")
        put_price == price(params.S, params.K, params.T, params.r,
                           params.sigma, "put")
    IN  /\ ret' = [op |-> "example_black_scholes",
                   finite |-> call_price.kind = "value"
                              /\ put_price.kind = "value",
                   call_price |-> call_price.val,
                   put_price |-> put_price.val,
                   call_put_parity |->
                       call_price.val - put_price.val - params.S
                       + Mul(params.K, Exp(Mul(-params.r, params.T)))]
        /\ UNCHANGED <<rng, pricers, params>>

\* greeks = GreeksCalculator(); greeks.delta(S, K, T, r, sigma, option_type)
GreeksDelta ==
    /\ ret' = [op |-> "delta",
               out |-> delta(params.S, params.K, params.T, params.r,
                             params.sigma, params.option_type)]
    /\ UNCHANGED <<rng, pricers, params>>

\* greeks.gamma(S, K, T, r, sigma)
GreeksGamma ==
    /\ ret' = [op |-> "gamma",
               out |-> gamma(params.S, params.K, params.T, params.r,
                             params.sigma)]
    /\ UNCHANGED <<rng, pricers, params>>

\* greeks.vega(S, K, T, r, sigma)
GreeksVega ==
    /\ ret' = [op |-> "vega",
               out |-> vega(params.S, params.K, params.T, params.r,
                            params.sigma)]
    /\ UNCHANGED <<rng, pricers, params>>

\* greeks.theta(S, K, T, r, sigma, option_type)
GreeksTheta ==
    /\ ret' = [op |-> "theta",
               out |-> theta(params.S, params.K, params.T, params.r,
                             params.sigma, params.option_type)]
    /\ UNCHANGED <<rng, pricers, params>>

\* greeks.rho(S, K, T, r, sigma, option_type)
GreeksRho ==
    /\ ret' = [op |-> "rho",
               out |-> rho(params.S, params.K, params.T, params.r,
                           params.sigma, params.option_type)]
    /\ UNCHANGED <<rng, pricers, params>>

\* greeks.all_greeks(S, K, T, r, sigma, option_type)
GreeksAll ==
    /\ ret' = [op |-> "all_greeks",
               out |-> all_greeks(params.S, params.K, params.T, params.r,
                                  params.sigma, params.option_type)]
    /\ UNCHANGED <<rng, pricers, params>>

\* p = MonteCarloPricer(random_seed): seeds the global generator
Construct ==
    \E p \in DOMAIN pricers, seed \in Seeds :
        /\ pricers' = [pricers EXCEPT
                          ![p] = [made |-> TRUE, random_seed |-> seed,
                                  drawn |-> 0]]
        /\ rng' = IF seed # NoSeed THEN Seeded(seed) ELSE rng
        /\ UNCHANGED <<params, ret>>

\* p.price(S, K, T, r, sigma, option_type, n_simulations, n_steps)
MCPrice ==
    \E p \in DOMAIN pricers :
        LET out == mc_price(rng, params.S, params.K, params.T, params.r,
                            params.sigma, params.option_type,
                            params.n_simulations, params.n_steps)
        IN  /\ pricers[p].made
            /\ rng.pos + out.draws <= MaxDraws
            /\ pricers[p].drawn + out.draws <= MaxDraws
            /\ ret' = [op |-> "mc_price", pricer |-> p,
                       seed |-> pricers[p].random_seed,
                       drawn |-> pricers[p].drawn, before |-> rng,
                       after |-> Advance(rng, out.draws), out |-> out,
                       log_ST |->
                           IF /\ out.kind = "value" /\ out.branch = "normal"
                              /\ params.n_steps > 1
                           THEN mc_log_paths(rng, params.S, params.T,
                                    params.r, params.sigma,
                                    params.n_simulations, params.n_steps)
                           ELSE <<>>,
                       discounted_payoffs |->
                           IF out.kind = "value" /\ out.branch = "normal"
                           THEN mc_discounted_payoffs(rng, params.S,
                                    params.K, params.T, params.r,
                                    params.sigma, params.option_type,
                                    params.n_simulations, params.n_steps)
                           ELSE <<>>]
            /\ rng' = Advance(rng, out.draws)
            /\ pricers' = [pricers EXCEPT ![p].drawn = @ + out.draws]
            /\ UNCHANGED params

\* p.price_vectorized(S, K, T, r, sigma, option_type, n_simulations, n_steps)
MCPriceVectorized ==
    \E p \in DOMAIN pricers, a \in ArrayInputs :
        LET out == mc_price_vectorized(rng, a.S, a.K, a.T, params.r,
                                       a.sigma, params.option_type,
                                       params.n_simulations, params.n_steps)
        IN  /\ pricers[p].made
            /\ out.g.pos <= MaxDraws
            /\ pricers[p].drawn + out.g.pos - rng.pos <= MaxDraws
            /\ ret' = [op |-> "mc_price_vectorized", pricer |-> p,
                       seed |-> pricers[p].random_seed, before |-> rng,
                       after |-> out.g, arrays |-> a, out |-> out]
            /\ rng' = out.g
            /\ pricers' = [pricers EXCEPT
                              ![p].drawn = @ + out.g.pos - rng.pos]
            /\ UNCHANGED params

\* the analytical engines
Next ==
    \/ BSPrice
    \/ BSPriceVectorized
    \/ ExampleBlackScholes
    \/ GreeksDelta
    \/ GreeksGamma
    \/ GreeksVega
    \/ GreeksTheta
    \/ GreeksRho
    \/ GreeksAll

\* the simulation engine
NextMC == Construct \/ MCPrice

\* the scalar and analytical entry points together
NextAll == BSPrice \/ BSPriceVectorized \/ Construct \/ MCPrice

\* the vectorized entry points
NextVec == BSPriceVectorized \/ Construct \/ MCPriceVectorized

Spec == Init /\ [][Next]_vars

SpecMC == InitMC /\ [][NextMC]_vars

SpecAll == InitAll /\ [][NextAll]_vars

SpecVec == InitVec /\ [][NextVec]_vars

\* the simulation engine with two pricers in one process
SpecTwo == InitTwo /\ [][NextMC]_vars

---------------------------------------------------------------------------
(* Properties                                                              *)

\* the larger of two numbers
MaxOf(a, b) == IF a >= b THEN a ELSE b

\* max(S - K, 0) for a call, max(K - S, 0) for a put
Intrinsic(S, K, option_type) ==
    IF option_type = "call" THEN MaxOf(S - K, 0) ELSE MaxOf(K - S, 0)

\* max(S - K e^(-rT), 0) for a call, max(K e^(-rT) - S, 0) for a put
DiscountedIntrinsic(S, K, T, r, option_type) ==
    LET pv == Mul(K, Exp(Mul(-r, T)))
    IN  IF option_type = "call" THEN MaxOf(S - pv, 0) ELSE MaxOf(pv - S, 0)

Recognized == {"call", "put"}

\* the call ended in an exception
Raised(out) == out.kind \notin {"value", "nan"}

\* C1: BlackScholesPricer.price tests T <= 0 first and returns the intrinsic
\* value whatever sigma and r are; else on sigma <= 0 it returns the
\* discounted intrinsic value; the d1/d2 formula is evaluated exactly when
\* T > 0 and sigma > 0.
C1_ThreeWayBranch ==
    (ret.op = "price" /\ params.option_type \in Recognized) =>
        /\ (params.T <= 0) =>
               ret.out = [kind |-> "value", branch |-> "expired",
                          val |-> Intrinsic(params.S, params.K,
                                            params.option_type)]
        /\ (params.T > 0 /\ params.sigma <= 0) =>
               ret.out = [kind |-> "value", branch |-> "zero_vol",
                          val |-> DiscountedIntrinsic(params.S, params.K,
                                      params.T, params.r,
                                      params.option_type)]
        /\ (ret.out.branch = "normal") <=>
               (params.T > 0 /\ params.sigma > 0)

\* an expired option with non-positive volatility, in the money
C1_Witness ==
    /\ ret.op = "price"
    /\ params.option_type \in Recognized
    /\ params.T < 0 /\ params.sigma <= 0
    /\ params.S > 0 /\ params.K > 0
    /\ ret.out.val > 0

\* C2: for valid inputs the analytical price, every element of the
\* vectorized analytical prices and the simulated price are numbers >= 0,
\* in the expired, zero-volatility and normal branches.
C2_NonNegative ==
    /\ ret.op = "price" => (ret.out.kind = "value" /\ ret.out.val >= 0)
    /\ (/\ ret.op = "price_vectorized"
        /\ Len(ret.arrays.K) = Len(ret.arrays.S)
        /\ Len(ret.arrays.T) = Len(ret.arrays.S)
        /\ Len(ret.arrays.sigma) = Len(ret.arrays.S)) =>
           /\ ret.out.kind = "value"
           /\ \A i \in 1..Len(ret.out.vals) : ret.out.vals[i] >= 0
    /\ ret.op = "mc_price" =>
           (ret.out.kind = "value" /\ ret.out.price >= 0)

\* a simulation in the normal branch that priced above zero
C2_Witness ==
    /\ ret.op = "mc_price"
    /\ ret.out.branch = "normal"
    /\ ret.out.draws > 1
    /\ ret.out.price > 0

\* the rounding units allowed to the parity gap
ParityTol == 1

\* C3: with T > 0, sigma > 0, S > 0 and K > 0 the analytical call price
\* minus the put price equals S - K e^(-rT) within tolerance, the clamp
\* max(price, 0) on each leg included.
C3_PutCallParity ==
    (/\ ret.op = "example_black_scholes"
     /\ params.T > 0 /\ params.sigma > 0
     /\ params.S > 0 /\ params.K > 0) =>
        /\ ret.finite
        /\ Abs(ret.call_put_parity) <= ParityTol

\* both legs priced in the normal branch, each worth something
C3_Witness ==
    /\ ret.op = "example_black_scholes"
    /\ params.T > 0 /\ params.sigma > 0
    /\ params.S > 0 /\ params.K > 0
    /\ ret.call_price > 0 /\ ret.put_price > 0

\* C4: two price calls in the normal case on pricers constructed with the
\* same seed, with the same parameters, return the same price and standard
\* error, a pricer's first call and its next included.
C4_SameSeedSameResult ==
    [][(/\ ret.op = "mc_price" /\ ret'.op = "mc_price"
        /\ ret.seed # NoSeed /\ ret'.seed = ret.seed
        /\ ret.out.branch = "normal" /\ ret'.out.branch = "normal"
        /\ ret.out.kind = "value" /\ ret'.out.kind = "value") =>
           /\ ret'.out.price = ret.out.price
           /\ ret'.out.std_error = ret.out.std_error]_vars

\* C5: MonteCarloPricer.price rejects n_simulations <= 0 and n_steps <= 0
\* with an error, whatever the other parameters are; it returns no
\* (price, standard_error) for them.
C5_RejectsNonPositiveCounts ==
    (/\ ret.op = "mc_price"
     /\ (params.n_simulations <= 0 \/ params.n_steps <= 0)) =>
        Raised(ret.out)

\* C6: an option type other than "call" and "put" is reported as an error
\* and never priced.
C6_RejectsUnknownOptionType ==
    /\ (ret.op = "price" /\ params.option_type \notin Recognized) =>
           Raised(ret.out)
    /\ (ret.op = "price_vectorized" /\ params.option_type \notin Recognized)
           => Raised(ret.out)

\* the four arrays of a vectorized call have one length
SameLengths(a) ==
    /\ Len(a.K) = Len(a.S)
    /\ Len(a.T) = Len(a.S)
    /\ Len(a.sigma) = Len(a.S)

\* C7: a vectorized call whose arrays S, K, T, sigma do not all have the
\* same length fails and returns no result array.
C7_RejectsMismatchedLengths ==
    (/\ ret.op \in {"price_vectorized", "mc_price_vectorized"}
     /\ ~SameLengths(ret.arrays)) =>
        Raised(ret.out)

\* C8: a non-positive spot or strike is reported as an error in every
\* branch; price returns no number for it.
C8_RejectsNonPositiveSpotOrStrike ==
    (ret.op = "price" /\ (params.S <= 0 \/ params.K <= 0)) =>
        Raised(ret.out)

\* C9: for arrays of one length n, price_vectorized returns n prices and the
\* i-th is BlackScholesPricer.price of the i-th elements.
C9_VectorizedIsElementwise ==
    (ret.op = "price_vectorized" /\ SameLengths(ret.arrays)) =>
        /\ ret.out.kind = "value"
        /\ Len(ret.out.vals) = Len(ret.arrays.S)
        /\ \A i \in 1..Len(ret.arrays.S) :
               ret.out.vals[i]
                   = price(ret.arrays.S[i], ret.arrays.K[i],
                           ret.arrays.T[i], params.r, ret.arrays.sigma[i],
                           params.option_type).val

\* C10: with T <= 0 or sigma <= 0 MonteCarloPricer.price returns the value
\* BlackScholesPricer.price returns for the same arguments, a standard error
\* of 0, and leaves the generator as it found it.
C10_DegenerateNoSimulation ==
    (ret.op = "mc_price" /\ (params.T <= 0 \/ params.sigma <= 0)) =>
        /\ ret.out.kind = "value"
        /\ ret.out.price
               = price(params.S, params.K, params.T, params.r,
                       params.sigma, params.option_type).val
        /\ ret.out.std_error = 0
        /\ ret.after = ret.before

\* a zero-volatility option priced above zero by a pricer whose generator
\* had been seeded
C10_Witness ==
    /\ ret.op = "mc_price"
    /\ params.T > 0 /\ params.sigma <= 0
    /\ params.n_simulations > 0 /\ params.n_steps > 0
    /\ ret.out.price > 0
    /\ ret.before.stream # EntropyStream

\* s without its i-th element
Remove(s, i) == [j \in 1..(Len(s) - 1) |-> IF j < i THEN s[j] ELSE s[j + 1]]

\* the stream positions the i-th call of a vectorized simulation drew from
Used(outs, i) ==
    (outs[i].entered.pos + 1)..(outs[i].entered.pos + outs[i].out.draws)

\* C11: for arrays of one length n, MonteCarloPricer.price_vectorized
\* returns n results in input order, the i-th being price of the i-th
\* elements run on the draws that follow those of the earlier elements; no
\* stream position is drawn by two options; a degenerate element (T <= 0 or
\* sigma <= 0) draws nothing, and the call without it gives the other
\* elements the same results.
C11_VectorizedIndependentInOrder ==
    (ret.op = "mc_price_vectorized" /\ SameLengths(ret.arrays)) =>
        LET a == ret.arrays
            n == Len(a.S)
            outs == ret.out.outs
            Degenerate(i) == a.T[i] <= 0 \/ a.sigma[i] <= 0
            Before(i) ==
                Cardinality({j \in 1..(i - 1) : ~Degenerate(j)})
                    * params.n_simulations * params.n_steps
            Without(i) ==
                mc_price_vectorized(ret.before, Remove(a.S, i),
                    Remove(a.K, i), Remove(a.T, i), params.r,
                    Remove(a.sigma, i), params.option_type,
                    params.n_simulations, params.n_steps)
        IN  /\ ret.out.kind = "value"
            /\ Len(outs) = n
            /\ \A i \in 1..n :
                   outs[i].out
                       = mc_price(Advance(ret.before, Before(i)), a.S[i],
                                  a.K[i], a.T[i], params.r, a.sigma[i],
                                  params.option_type, params.n_simulations,
                                  params.n_steps)
            /\ \A i, j \in 1..n :
                   i # j => Used(outs, i) \cap Used(outs, j) = {}
            /\ ret.after.pos - ret.before.pos
                   = Cardinality(UNION {Used(outs, i) : i \in 1..n})
            /\ \A i \in 1..n :
                   Degenerate(i) =>
                       /\ Used(outs, i) = {}
                       /\ \A j \in 1..(n - 1) :
                              Without(i).outs[j].out
                                  = outs[IF j < i THEN j ELSE j + 1].out

\* three options, the middle one expired, the outer two simulated to
\* different prices
C11_Witness ==
    /\ ret.op = "mc_price_vectorized"
    /\ ret.out.kind = "value"
    /\ Len(ret.out.outs) = 3
    /\ ret.arrays.T[2] <= 0
    /\ ret.out.outs[1].out.draws > 0
    /\ ret.out.outs[3].out.draws > 0
    /\ ret.out.outs[1].out.price # ret.out.outs[3].out.price

\* C12: with n_steps > 1 every step of size dt = T / n_steps adds its drift
\* (r - sigma^2 / 2) * dt and its shock sigma * sqrt(dt) * Z_step to the
\* log-price, so each path ends at ln(S) plus n_steps drifts plus its shocks.
C12_EveryStepDrifts ==
    (/\ ret.op = "mc_price" /\ ret.out.kind = "value"
     /\ ret.out.branch = "normal" /\ params.n_steps > 1) =>
        LET dt == RDiv(params.T, params.n_steps)
            drift == Mul(params.r - Mul(Half, Mul(params.sigma, params.sigma)),
                         dt)
            shock(i, j) ==
                Mul(Mul(params.sigma, Sqrt(dt)),
                    ZAt(ret.before, params.n_steps, i, j))
        IN  /\ Len(ret.log_ST) = params.n_simulations
            /\ \A i \in 1..params.n_simulations :
                   ret.log_ST[i]
                       = Ln(params.S) + params.n_steps * drift
                         + SeqSum([j \in 1..params.n_steps |-> shock(i, j)])

\* the sample standard deviation of two or more numbers (divisor n - 1)
SampleStd(s) ==
    LET m == Mean(s)
    IN  Sqrt(RDiv(SeqSum([i \in 1..Len(s) |-> Mul(s[i] - m, s[i] - m)]),
                  Len(s) - 1))

\* C13: in the normal case the price is the mean of the n_simulations
\* discounted payoffs and the standard error is their sample standard
\* deviation (divisor n_simulations - 1) over sqrt(n_simulations).
C13_SampleStandardError ==
    (/\ ret.op = "mc_price" /\ ret.out.kind = "value"
     /\ ret.out.branch = "normal" /\ params.n_simulations >= 2) =>
        /\ Len(ret.discounted_payoffs) = params.n_simulations
        /\ ret.out.price = Mean(ret.discounted_payoffs)
        /\ ret.out.std_error
               = Div(SampleStd(ret.discounted_payoffs),
                     Sqrt(params.n_simulations * SCALE))

GreekNames == {"delta", "gamma", "vega", "theta", "rho"}

\* what the boundary policy gives the named Greek with T <= 0 or sigma <= 0
BoundaryGreek(name, S, K, T, option_type) ==
    IF name = "delta" /\ T <= 0
    THEN (IF option_type = "call" THEN (IF S > K THEN SCALE ELSE 0)
          ELSE (IF S < K THEN -SCALE ELSE 0))
    ELSE 0

\* C14: with T <= 0, whatever sigma is, delta is 1 if S > K else 0 for a
\* call and -1 if S < K else 0 for a put, and gamma, vega, theta, rho are 0;
\* with T > 0 and sigma <= 0 all five are 0; in neither case is d1/d2
\* evaluated; all_greeks returns these five values under the keys delta,
\* gamma, vega, theta, rho.
C14_GreeksBoundaryPolicy ==
    (/\ params.option_type \in Recognized
     /\ (params.T <= 0 \/ params.sigma <= 0)) =>
        LET policy(name) ==
                [kind |-> "value",
                 val |-> BoundaryGreek(name, params.S, params.K, params.T,
                                       params.option_type),
                 calls |-> 0]
        IN  /\ ret.op \in GreekNames => ret.out = policy(ret.op)
            /\ ret.op = "all_greeks" =>
                   /\ ret.out.kind = "value"
                   /\ DOMAIN ret.out.greeks = GreekNames
                   /\ \A name \in GreekNames :
                          ret.out.greeks[name] = policy(name)
                   /\ ret.out.d1_d2_calls = 0

\* all_greeks of an expired put at the money, its volatility positive
C14_Witness ==
    /\ ret.op = "all_greeks"
    /\ params.option_type = "put"
    /\ params.T <= 0 /\ params.sigma > 0
    /\ params.S = params.K
    /\ ret.out.greeks.delta.val = 0

\* C15: in the normal case (T > 0, sigma > 0) one all_greeks call evaluates
\* _d1_d2 exactly once and the five Greeks share its result.
C15_OneSharedD1D2 ==
    (/\ ret.op = "all_greeks" /\ ret.out.kind = "value"
     /\ params.T > 0 /\ params.sigma > 0) =>
        ret.out.d1_d2_calls = 1

\* C16: a seeded pricer's results depend only on its seed and its own calls:
\* each price call returns what a generator seeded with the pricer's seed
\* and advanced by the pricer's own earlier draws gives, whatever another
\* pricer was constructed with or drew in between.
C16_PricerOwnsRandomSource ==
    (ret.op = "mc_price" /\ ret.seed # NoSeed) =>
        ret.out = mc_price(Advance(Seeded(ret.seed), ret.drawn), params.S,
                           params.K, params.T, params.r, params.sigma,
                           params.option_type, params.n_simulations,
                           params.n_steps)

===========================================================================
